---- MODULE Spec2Model ----
(***************************************************************************)
(* Claude -> Kiro conversion pipeline: name normalizer, unique-name        *)
(* allocator, content transformation engine, converter and bundle writer.  *)
(*                                                                         *)
(* A JavaScript string is modelled as a sequence of one-character strings, *)
(* so that the regular expressions of the source are computed character by *)
(* character.                                                              *)
(***************************************************************************)
EXTENDS Integers, Sequences, FiniteSets, TLC

VARIABLES
    pc,         \* position of the running operation
    nIn,        \* normalizeName: the input string
    nOut,       \* normalizeName: normalizeName(nIn)
    nOut2,      \* normalizeName: normalizeName(nOut)
    used,       \* uniqueName: the registry (Set<string>)
    uCall,      \* uniqueName: the last call, [base, before, name]
    returned,   \* uniqueName: the names returned so far, in call order
    tBody,      \* transformContentForKiro: the body
    tPeers,     \* transformContentForKiro: knownAgentNames
    tOut,       \* transformContentForKiro: transform(tBody, tPeers)
    tOut2,      \* transformContentForKiro: transform(tOut, tPeers)
    plugin,     \* convertClaudeToKiro: the ClaudePlugin
    usedSkillNames, \* convertClaudeToKiro: its registry, after the run
    outputRoot, \* writeKiroBundle: the output root, as path segments
    bundle,     \* the KiroBundle being written
    widx,       \* writeKiroBundle: index of the next record of the section
    files,      \* the output tree: path -> content written there
    mcpFile,    \* the settings/mcp.json file on disk
    backups,    \* the backups of mcp.json taken, oldest first
    existingConfig, \* writeKiroBundle: its local existingConfig
    warnings,   \* the console.warn lines, oldest first
    raised,     \* the Error thrown out of writeKiroBundle, or NoError
    ops,        \* history: the file operations performed, oldest first
    mcpBefore   \* history: mcp.json as it was when writeKiroBundle began

normVars == <<nIn, nOut, nOut2>>

uniqueVars == <<used, uCall, returned>>

transformVars == <<tBody, tPeers, tOut, tOut2>>

convertVars == <<plugin, usedSkillNames>>

writeVars == <<outputRoot, bundle, widx, files, mcpFile, backups,
               existingConfig, warnings, raised, ops, mcpBefore>>

vars == <<pc, normVars, uniqueVars, transformVars, convertVars, writeVars>>

(***************************************************************************)
(* Characters and strings                                                  *)
(***************************************************************************)
LowerLetters ==
    {"a","b","c","d","e","f","g","h","i","j","k","l","m",
     "n","o","p","q","r","s","t","u","v","w","x","y","z"}

UpperSeq ==
    <<"A","B","C","D","E","F","G","H","I","J","K","L","M",
      "N","O","P","Q","R","S","T","U","V","W","X","Y","Z">>

LowerSeq ==
    <<"a","b","c","d","e","f","g","h","i","j","k","l","m",
      "n","o","p","q","r","s","t","u","v","w","x","y","z">>

UpperLetters == {UpperSeq[i] : i \in DOMAIN UpperSeq}

DigitSeq == <<"0","1","2","3","4","5","6","7","8","9">>

Digits == {DigitSeq[i] : i \in DOMAIN DigitSeq}

\* \s of a JavaScript regular expression, and what String.prototype.trim strips
WhiteSpace == {" ", "\n", "\t"}

\* [A-Za-z0-9_], the word characters that decide \b
WordChars == LowerLetters \cup UpperLetters \cup Digits \cup {"_"}

Rep(c, n) == [i \in 1..n |-> c]

\* String.prototype.toLowerCase on one character
LowerChar(c) ==
    IF c \in UpperLetters
    THEN LowerSeq[CHOOSE i \in DOMAIN UpperSeq : UpperSeq[i] = c]
    ELSE c

toLowerCase(s) == [i \in DOMAIN s |-> LowerChar(s[i])]

\* s.slice(0, n)
Slice0(s, n) == SubSeq(s, 1, IF n < Len(s) THEN n ELSE Len(s))

\* String.prototype.trim
trim(s) ==
    LET keep == {i \in DOMAIN s : s[i] \notin WhiteSpace}
    IN IF keep = {} THEN <<>>
       ELSE LET lo == CHOOSE i \in keep : \A j \in keep : i <= j
                hi == CHOOSE i \in keep : \A j \in keep : j <= i
            IN SubSeq(s, lo, hi)

\* s.replace(/[C]+/g, "-") for a character class C: every maximal run of
\* characters of C becomes one hyphen
ReplaceRuns(s, C) ==
    LET marked == [i \in DOMAIN s |->
                     IF s[i] \in C
                     THEN IF i > 1 /\ s[i-1] \in C THEN "" ELSE "-"
                     ELSE s[i]]
    IN SelectSeq(marked, LAMBDA c : c # "")

\* s.replace(/[^C]+/g, "-"): every maximal run of characters outside C
ReplaceRunsNotIn(s, C) ==
    LET marked == [i \in DOMAIN s |->
                     IF s[i] \notin C
                     THEN IF i > 1 /\ s[i-1] \notin C THEN "" ELSE "-"
                     ELSE s[i]]
    IN SelectSeq(marked, LAMBDA c : c # "")

\* s.replace(/-+$/g, "")
StripTrailingHyphens(s) ==
    LET keep == {i \in DOMAIN s : s[i] # "-"}
    IN IF keep = {} THEN <<>>
       ELSE SubSeq(s, 1, CHOOSE i \in keep : \A j \in keep : j <= i)

\* s.replace(/^-+|-+$/g, "")
StripEdgeHyphens(s) ==
    LET keep == {i \in DOMAIN s : s[i] # "-"}
    IN IF keep = {} THEN <<>>
       ELSE LET lo == CHOOSE i \in keep : \A j \in keep : i <= j
                hi == CHOOSE i \in keep : \A j \in keep : j <= i
            IN SubSeq(s, lo, hi)

\* s.lastIndexOf("-"), as a 0-based index, -1 when there is none
LastIndexOfHyphen(s) ==
    LET at == {i \in DOMAIN s : s[i] = "-"}
    IN IF at = {} THEN -1
       ELSE (CHOOSE i \in at : \A j \in at : j <= i) - 1

(***************************************************************************)
(* normalizeName                                                           *)
(***************************************************************************)
KIRO_SKILL_NAME_MAX_LENGTH == 64

Item == <<"i","t","e","m">>

NameChars == LowerLetters \cup Digits \cup {"_", "-"}

\* the chain of replace calls of normalizeName, before the length check
CleanName(trimmed) ==
    StripEdgeHyphens(
      ReplaceRuns(
        ReplaceRunsNotIn(
          ReplaceRuns(
            ReplaceRuns(toLowerCase(trimmed), {"\\", "/"}),
            {":"} \cup WhiteSpace),
          NameChars),
        {"-"}))

\* the length enforcement of normalizeName
TruncateName(normalized) ==
    IF Len(normalized) > KIRO_SKILL_NAME_MAX_LENGTH
    THEN LET cut == Slice0(normalized, KIRO_SKILL_NAME_MAX_LENGTH)
             lastHyphen == LastIndexOfHyphen(cut)
         IN StripTrailingHyphens(
              IF lastHyphen > 0 THEN Slice0(cut, lastHyphen) ELSE cut)
    ELSE normalized

\* mutant: the final "starts with a letter" fallback is left out
normalizeName_noFallback(value) ==
    LET trimmed == trim(value)
    IN IF trimmed = <<>> THEN Item ELSE TruncateName(CleanName(trimmed))

\* mutant: the edge hyphens are trimmed before the illegal characters are
\* replaced, so a hyphen produced by that replacement stays at the edge
normalizeName_trimFirst(value) ==
    LET trimmed == trim(value)
    IN IF trimmed = <<>> THEN Item
       ELSE LET normalized ==
                  TruncateName(
                    ReplaceRuns(
                      ReplaceRunsNotIn(
                        StripEdgeHyphens(
                          ReplaceRuns(
                            ReplaceRuns(toLowerCase(trimmed), {"\\", "/"}),
                            {":"} \cup WhiteSpace)),
                        NameChars),
                      {"-"}))
            IN IF normalized = <<>> \/ normalized[1] \notin LowerLetters
               THEN Item ELSE normalized

normalizeName(value) ==
    LET trimmed == trim(value)
    IN IF trimmed = <<>> THEN Item
       ELSE LET normalized == TruncateName(CleanName(trimmed))
            IN IF normalized = <<>> \/ normalized[1] \notin LowerLetters
               THEN Item ELSE normalized

(***************************************************************************)
(* uniqueName                                                              *)
(***************************************************************************)
RECURSIVE DecChars(_)
\* the decimal digits of a number, as template-literal interpolation prints it
DecChars(n) ==
    IF n < 10 THEN <<DigitSeq[n + 1]>>
    ELSE DecChars(n \div 10) \o <<DigitSeq[(n % 10) + 1]>>

\* ${base}-${index}
Suffixed(base, index) == base \o <<"-">> \o DecChars(index)

RECURSIVE ProbeIndex(_, _, _)
\* the while loop of uniqueName: the first index from index on whose
\* suffixed form is not in the registry
ProbeIndex(base, registry, index) ==
    IF Suffixed(base, index) \in registry
    THEN ProbeIndex(base, registry, index + 1)
    ELSE index

\* mutant: the suffixed name is returned but not reserved
uniqueName_noReserve(base, registry) ==
    IF base \notin registry
    THEN [name |-> base, used |-> registry \cup {base}]
    ELSE [name |-> Suffixed(base, ProbeIndex(base, registry, 2)),
          used |-> registry]

\* uniqueName(base, used): the name returned and the registry after the call
uniqueName(base, registry) ==
    IF base \notin registry
    THEN [name |-> base, used |-> registry \cup {base}]
    ELSE LET name == Suffixed(base, ProbeIndex(base, registry, 2))
         IN [name |-> name, used |-> registry \cup {name}]

(***************************************************************************)
(* transformContentForKiro                                                 *)
(***************************************************************************)
\* the character at 1-based position i, "" outside the string
At(s, i) == IF i \in DOMAIN s THEN s[i] ELSE ""

\* the literal lit occurs in s at position i
HasLit(s, i, lit) ==
    /\ i >= 1
    /\ i + Len(lit) - 1 <= Len(s)
    /\ \A k \in DOMAIN lit : s[i + k - 1] = lit[k]

\* the first position from i on whose character is not in C (a greedy C*)
SkipWhile(s, i, C) ==
    LET stop == {j \in i..(Len(s) + 1) : At(s, j) \notin C}
    IN CHOOSE j \in stop : \A k \in stop : j <= k

\* the first position from i on holding character c, 0 when there is none
IndexOfFrom(s, i, c) ==
    LET at == {j \in i..Len(s) : s[j] = c}
    IN IF at = {} THEN 0 ELSE CHOOSE j \in at : \A k \in at : j <= k

\* ^ under the m flag
LineStart(s, i) == i = 1 \/ At(s, i - 1) = "\n"

\* the backtick character, which a TLA+ string literal cannot hold, stands
\* as a one-character string of its own
Backtick == "BACKTICK"

\* the class of quote characters of the path patterns
Quotes == {"\"", "'", Backtick}

NoMatch == [ok |-> FALSE, end |-> 0, out |-> <<>>]

\* s.replace(re, fn) for a global regular expression that matches no empty
\* string: Match(s, p) is the match attempted at position p, as
\* [ok, end (the position after the match), out (the replacement)]; the
\* scan resumes after a match and every attempt reads the original string
ReplaceAll(s, Match(_, _)) ==
    LET from[p \in 1..(Len(s) + 1)] ==
            LET hits == {q \in p..Len(s) : Match(s, q).ok}
            IN IF hits = {} THEN SubSeq(s, p, Len(s))
               ELSE LET q == CHOOSE i \in hits : \A j \in hits : i <= j
                        m == Match(s, q)
                    IN SubSeq(s, p, q - 1) \o m.out \o from[m.end]
    IN from[1]

TaskLit == <<"T","a","s","k">>

DelegateHead == <<"U","s","e"," ","t","h","e"," ","u","s","e","_","s","u","b","a","g","e","n","t"," ","t","o","o","l"," ","t","o"," ","d","e","l","e","g","a","t","e"," ","t","o"," ","t","h","e"," ">>

AgentColon == <<" ","a","g","e","n","t",":"," ">>

TaskNameChars == LowerLetters \cup Digits \cup {"-"}

\* /^(\s*-?\s*)Task\s+([a-z][a-z0-9-]*)\(([^)]+)\)/gm attempted at p
TaskMatch(s, p) ==
    LET q1 == SkipWhile(s, p, WhiteSpace)
        q2 == IF At(s, q1) = "-" THEN SkipWhile(s, q1 + 1, WhiteSpace) ELSE q1
        q3 == SkipWhile(s, q2 + Len(TaskLit), WhiteSpace)
        q4 == SkipWhile(s, q3, TaskNameChars)
        q5 == IndexOfFrom(s, q4 + 1, ")")
    IN IF /\ LineStart(s, p)
          /\ HasLit(s, q2, TaskLit)
          /\ q3 > q2 + Len(TaskLit)
          /\ At(s, q3) \in LowerLetters
          /\ At(s, q4) = "("
          /\ q5 > q4 + 1
       THEN [ok |-> TRUE, end |-> q5 + 1,
             out |-> SubSeq(s, p, q2 - 1) \o DelegateHead
                       \o normalizeName(SubSeq(s, q3, q4 - 1)) \o AgentColon
                       \o trim(SubSeq(s, q4 + 1, q5 - 1))]
       ELSE NoMatch

\* pass 1: Task agent calls
Pass1(s) == ReplaceAll(s, TaskMatch)

HomeClaudeLit == <<"~","/",".","c","l","a","u","d","e","/">>

HomeKiroLit == <<"~","/",".","k","i","r","o","/">>

ClaudeLit == <<".","c","l","a","u","d","e","/">>

KiroLit == <<".","k","i","r","o","/">>

\* /(?<=^|\s|["'])LIT/gm attempted at p, replaced by rep
PathMatch(s, p, lit, rep) ==
    IF /\ HasLit(s, p, lit)
       /\ (LineStart(s, p) \/ At(s, p - 1) \in WhiteSpace \cup Quotes)
    THEN [ok |-> TRUE, end |-> p + Len(lit), out |-> rep]
    ELSE NoMatch

\* pass 2: ~/.claude/ and then .claude/ paths
Pass2(s) ==
    LET home == ReplaceAll(s, LAMBDA t, p : PathMatch(t, p, HomeClaudeLit, HomeKiroLit))
    IN ReplaceAll(home, LAMBDA t, p : PathMatch(t, p, ClaudeLit, KiroLit))

TheLit == <<"t","h","e"," ">>

SkillLit == <<" ","s","k","i","l","l">>

AgentLit == <<" ","a","g","e","n","t">>

SlashNameChars == LowerLetters \cup UpperLetters \cup Digits \cup {"_", ":", "-"}

\* /(?<=^|\s)BACKTICK?\/([a-zA-Z][a-zA-Z0-9_:-]*)BACKTICK?/gm attempted at p
SlashMatch(s, p) ==
    LET q1 == IF At(s, p) = Backtick THEN p + 1 ELSE p
        q2 == SkipWhile(s, q1 + 1, SlashNameChars)
        q3 == IF At(s, q2) = Backtick THEN q2 + 1 ELSE q2
    IN IF /\ (LineStart(s, p) \/ At(s, p - 1) \in WhiteSpace)
          /\ At(s, q1) = "/"
          /\ At(s, q1 + 1) \in LowerLetters \cup UpperLetters
       THEN [ok |-> TRUE, end |-> q3,
             out |-> TheLit \o normalizeName(SubSeq(s, q1 + 1, q2 - 1)) \o SkillLit]
       ELSE NoMatch

\* pass 3: slash command references
Pass3(s) == ReplaceAll(s, SlashMatch)

\* Object.entries(CLAUDE_TO_KIRO_TOOLS), in insertion order
CLAUDE_TO_KIRO_TOOLS ==
    << <<<<"B","a","s","h">>, <<"s","h","e","l","l">>>>,
       <<<<"W","r","i","t","e">>, <<"w","r","i","t","e">>>>,
       <<<<"R","e","a","d">>, <<"r","e","a","d">>>>,
       <<<<"E","d","i","t">>, <<"w","r","i","t","e">>>>,
       <<<<"G","l","o","b">>, <<"g","l","o","b">>>>,
       <<<<"G","r","e","p">>, <<"g","r","e","p">>>>,
       <<<<"W","e","b","F","e","t","c","h">>, <<"w","e","b","_","f","e","t","c","h">>>>,
       <<<<"T","a","s","k">>, <<"u","s","e","_","s","u","b","a","g","e","n","t">>>> >>

ToolWord == <<"t","o","o","l">>

ToWord == <<"t","o">>

\* new RegExp(\\b${claudeTool}\\b(?=\\s+tool|\\s+to\\s), "g") attempted at p
ToolMatch(s, p, claudeTool, kiroTool) ==
    LET e == p + Len(claudeTool)
        w == SkipWhile(s, e, WhiteSpace)
    IN IF /\ HasLit(s, p, claudeTool)
          /\ At(s, p - 1) \notin WordChars
          /\ At(s, e) \notin WordChars
          /\ w > e
          /\ \/ HasLit(s, w, ToolWord)
             \/ HasLit(s, w, ToWord) /\ At(s, w + Len(ToWord)) \in WhiteSpace
       THEN [ok |-> TRUE, end |-> e, out |-> kiroTool]
       ELSE NoMatch

RECURSIVE Pass4From(_, _)
\* pass 4: the loop over the tool table, from entry k on
Pass4From(s, k) ==
    IF k > Len(CLAUDE_TO_KIRO_TOOLS) THEN s
    ELSE Pass4From(
           ReplaceAll(s, LAMBDA t, p :
               ToolMatch(t, p, CLAUDE_TO_KIRO_TOOLS[k][1], CLAUDE_TO_KIRO_TOOLS[k][2])),
           k + 1)

Pass4(s) == Pass4From(s, 1)

\* \b at the gap before position i
WordBoundary(s, i) == (At(s, i - 1) \in WordChars) # (At(s, i) \in WordChars)

\* the alternative n of @(n1|n2|...)\b matches at p
PeerAltMatches(s, p, n) ==
    /\ At(s, p) = "@"
    /\ HasLit(s, p + 1, n)
    /\ WordBoundary(s, p + 1 + Len(n))

\* new RegExp(@(${escapedNames.join("|")})\\b, "g") attempted at p: the
\* first alternative, in list order, that matches. The names are normalized
\* identifiers, which the escaping leaves as they are.
PeerMatch(s, p, peerNames) ==
    LET alts == {k \in DOMAIN peerNames : PeerAltMatches(s, p, peerNames[k])}
    IN IF alts = {} THEN NoMatch
       ELSE LET k == CHOOSE i \in alts : \A j \in alts : i <= j
            IN [ok |-> TRUE, end |-> p + 1 + Len(peerNames[k]),
                out |-> TheLit \o normalizeName(peerNames[k]) \o AgentLit]

\* pass 5: @agent-name references, only when there are known names
Pass5(s, knownAgentNames) ==
    IF Len(knownAgentNames) > 0
    THEN ReplaceAll(s, LAMBDA t, p : PeerMatch(t, p, knownAgentNames))
    ELSE s

transformContentForKiro(body, knownAgentNames) ==
    Pass5(Pass4(Pass3(Pass2(Pass1(body)))), knownAgentNames)

(***************************************************************************)
(* The bundle and the output tree                                          *)
(***************************************************************************)
\* KiroBundle. An agent, generated skill or steering file is modelled as
\* [name, content] and a skill directory as [name, sourceDir]; content and
\* sourceDir are opaque values
EmptyBundle ==
    [agents |-> <<>>, generatedSkills |-> <<>>, skillDirs |-> <<>>,
     steeringFiles |-> <<>>, mcpServers |-> <<>>]

NoError == "none"

\* settings/mcp.json on disk: absent, text that is no JSON, or a parsed
\* JSON object (a function from its top-level keys to tagged values)
NoFile == [kind |-> "absent"]

BadJson == [kind |-> "unparseable"]

JsonFile(config) == [kind |-> "json", config |-> config]

\* JSON values, tagged with what typeof says of them
JsonString(v) == [type |-> "string", val |-> v]

JsonNumber(v) == [type |-> "number", val |-> v]

JsonObject(v) == [type |-> "object", val |-> v]

SegKiro == <<".","k","i","r","o">>

SegAgents == <<"a","g","e","n","t","s">>

SegPrompts == <<"p","r","o","m","p","t","s">>

SegSkills == <<"s","k","i","l","l","s">>

SegSteering == <<"s","t","e","e","r","i","n","g">>

SegSettings == <<"s","e","t","t","i","n","g","s">>

SegSkillMd == <<"S","K","I","L","L",".","m","d">>

SegMcpJson == <<"m","c","p",".","j","s","o","n">>

ExtJson == <<".","j","s","o","n">>

ExtMd == <<".","m","d">>

\* resolveKiroPaths(outputRoot): the root ends in ".kiro", or ".kiro" is
\* nested under it
resolveKiroPaths(root) ==
    LET kiroDir == IF Len(root) > 0 /\ root[Len(root)] = SegKiro
                   THEN root ELSE Append(root, SegKiro)
    IN [kiroDir |-> kiroDir,
        agentsDir |-> Append(kiroDir, SegAgents),
        skillsDir |-> Append(kiroDir, SegSkills),
        steeringDir |-> Append(kiroDir, SegSteering),
        settingsDir |-> Append(kiroDir, SegSettings)]

\* name.includes(lit)
Includes(name, lit) == \E i \in 1..Len(name) : HasLit(name, i, lit)

\* mutant: only the separators are looked for, not ".."
validatePathSafe_noDotDot(name) ==
    ~ (Includes(name, <<"/">>) \/ Includes(name, <<"\\">>))

\* validatePathSafe(name, label) returns (TRUE) or throws (FALSE)
validatePathSafe(name) ==
    ~ (Includes(name, <<".", ".">>) \/ Includes(name, <<"/">>)
         \/ Includes(name, <<"\\">>))

\* path.join(dir, name) for a name without separators: "" and "." add no
\* segment
PathJoin(dir, name) ==
    IF name = <<>> \/ name = <<".">> THEN dir ELSE Append(dir, name)

RECURSIVE PathString(_)
\* path.resolve(segments) as a string, below the working directory
PathString(segs) ==
    IF segs = <<>> THEN <<>>
    ELSE <<"/">> \o segs[1] \o PathString(Tail(segs))

\* a.startsWith(b)
StartsWith(a, b) == Len(b) <= Len(a) /\ SubSeq(a, 1, Len(b)) = b

\* writeJson / writeText / copyDir: the path holds the content afterwards
WriteFile(tree, path, content) ==
    [p \in DOMAIN tree \cup {path} |->
        IF p = path THEN content ELSE tree[p]]

\* the existing servers and the merged config of writeKiroBundle
MergedServers(config, servers) ==
    LET existingServers ==
            IF "mcpServers" \in DOMAIN config
               /\ config["mcpServers"].type = "object"
            THEN config["mcpServers"].val
            ELSE <<>>
    IN [n \in DOMAIN existingServers \cup DOMAIN servers |->
           IF n \in DOMAIN servers THEN servers[n] ELSE existingServers[n]]

\* mutant: on a server-name collision the existing entry is kept
MergedConfig_existingWins(config, servers) ==
    LET existingServers ==
            IF "mcpServers" \in DOMAIN config
               /\ config["mcpServers"].type = "object"
            THEN config["mcpServers"].val
            ELSE <<>>
        merged == [n \in DOMAIN existingServers \cup DOMAIN servers |->
                     IF n \in DOMAIN existingServers
                     THEN existingServers[n] ELSE servers[n]]
    IN [k \in DOMAIN config \cup {"mcpServers"} |->
           IF k = "mcpServers" THEN JsonObject(merged) ELSE config[k]]

\* { ...existingConfig, mcpServers: { ...existingServers, ...bundle.mcpServers } }
MergedConfig(config, servers) ==
    [k \in DOMAIN config \cup {"mcpServers"} |->
        IF k = "mcpServers"
        THEN JsonObject(MergedServers(config, servers))
        ELSE config[k]]

(***************************************************************************)
(* convertClaudeToKiro                                                     *)
(***************************************************************************)
\* ClaudePlugin: skills are [name, sourceDir], agents and commands are
\* [name, body], mcpServers maps a server name to [command, args, env]
\* ("" for a server without command), claudeMd is the text of CLAUDE.md
\* (NoClaudeMd when the file is missing), hooks says whether there are any
EmptyPlugin ==
    [skills |-> <<>>, agents |-> <<>>, commands |-> <<>>,
     mcpServers |-> <<>>, claudeMd |-> <<"missing">>, hooks |-> FALSE]

NoClaudeMd == <<"missing">>

AgentPlaceholderHead == <<"I","n","s","t","r","u","c","t","i","o","n","s"," ","c","o","n","v","e","r","t","e","d"," ","f","r","o","m"," ","t","h","e"," ">>

AgentPlaceholderTail == <<" ","a","g","e","n","t",".">>

CommandPlaceholderTail == <<" ","c","o","m","m","a","n","d",".">>

PromptPrefix == <<"f","i","l","e",":","/","/",".","/","p","r","o","m","p","t","s","/">>

SteeringName == <<"c","o","m","p","o","u","n","d","-","e","n","g","i","n","e","e","r","i","n","g">>

\* the body of a prompt or of a skill: the transformed text, or the
\* placeholder sentence when the text is empty
BodyOr(transformed, placeholder) ==
    IF Len(transformed) = 0 THEN placeholder ELSE transformed

\* the KiroAgent record of convertAgentToKiroAgent
KiroAgentOf(name, promptContent) ==
    [name |-> name,
     config |-> [name |-> name, prompt |-> PromptPrefix \o name \o ExtMd],
     promptContent |-> promptContent]

\* convertAgentToKiroAgent, for an agent without capabilities; the
\* description is not modelled
convertAgentToKiroAgent(agent, knownAgentNames) ==
    KiroAgentOf(
      normalizeName(agent.name),
      BodyOr(transformContentForKiro(trim(agent.body), knownAgentNames),
             AgentPlaceholderHead \o agent.name \o AgentPlaceholderTail))

\* the KiroSkill record of convertCommandToSkill, with the registry that
\* uniqueName left; the content is the frontmatter name and the body
KiroSkillOf(unique, body) ==
    [skill |-> [name |-> unique.name,
                content |-> [name |-> unique.name, body |-> body]],
     used |-> unique.used]

\* convertCommandToSkill: the skill and the registry after the call
convertCommandToSkill(command, usedNames, knownAgentNames) ==
    KiroSkillOf(
      uniqueName(normalizeName(command.name), usedNames),
      BodyOr(transformContentForKiro(trim(command.body), knownAgentNames),
             AgentPlaceholderHead \o command.name \o CommandPlaceholderTail))

\* one more element of the mapped array, and the registry its call left
AppendSkill(done, converted) ==
    [skills |-> Append(done.skills, converted.skill), used |-> converted.used]

RECURSIVE ConvertCommands(_, _, _)
\* plugin.commands.map(convertCommandToSkill), threading the registry:
\* done is [skills, used] for the commands mapped so far
ConvertCommands(commands, done, knownAgentNames) ==
    IF commands = <<>> THEN done
    ELSE ConvertCommands(
           Tail(commands),
           AppendSkill(done,
                       convertCommandToSkill(commands[1], done.used, knownAgentNames)),
           knownAgentNames)

\* convertMcpServers: the servers with a command, args and env kept when
\* not empty
convertMcpServers(servers) ==
    LET kept == {n \in DOMAIN servers : servers[n].command # ""}
    IN [n \in kept |->
          [k \in {"command"}
                 \cup (IF Len(servers[n].args) > 0 THEN {"args"} ELSE {})
                 \cup (IF DOMAIN servers[n].env # {} THEN {"env"} ELSE {})
           |-> servers[n][k]]]

RECURSIVE McpWarningsOf(_, _)
\* the warnings of convertMcpServers, one per server without command among
\* the servers named in names
McpWarningsOf(servers, names) ==
    IF names = {} THEN <<>>
    ELSE LET n == CHOOSE m \in names : TRUE
         IN (IF servers[n].command = ""
             THEN <<[warning |-> "no command", name |-> n]>> ELSE <<>>)
            \o McpWarningsOf(servers, names \ {n})

McpWarnings(servers) == McpWarningsOf(servers, DOMAIN servers)

\* buildSteeringFiles: one record when CLAUDE.md exists and is not blank
buildSteeringFiles(p, knownAgentNames) ==
    IF p.claudeMd = NoClaudeMd \/ Len(trim(p.claudeMd)) = 0 THEN <<>>
    ELSE << [name |-> SteeringName,
             content |-> transformContentForKiro(p.claudeMd, knownAgentNames)] >>

\* skillDirs of convertClaudeToKiro: the pass-through skills under their
\* own names
SkillDirsOf(p) ==
    [i \in DOMAIN p.skills |->
        [name |-> p.skills[i].name, sourceDir |-> p.skills[i].sourceDir]]

\* the registry before the commands are converted: the normalized names of
\* the pass-through skills
ReservedSkillNames(p) ==
    {normalizeName(p.skills[i].name) : i \in DOMAIN p.skills}

\* plugin.agents.map((a) => normalizeName(a.name))
AgentNamesOf(p) == [i \in DOMAIN p.agents |-> normalizeName(p.agents[i].name)]

\* the returned bundle, and the registry the conversion leaves
BundleOf(p, agentNames, generated) ==
    [bundle |-> [agents |-> [i \in DOMAIN p.agents |->
                               convertAgentToKiroAgent(p.agents[i], agentNames)],
                 generatedSkills |-> generated.skills,
                 skillDirs |-> SkillDirsOf(p),
                 steeringFiles |-> buildSteeringFiles(p, agentNames),
                 mcpServers |-> convertMcpServers(p.mcpServers)],
     used |-> generated.used]

\* convertClaudeToKiro once the known agent names are computed
ConvertWithAgents(p, agentNames) ==
    BundleOf(p, agentNames,
             ConvertCommands(p.commands,
                             [skills |-> <<>>, used |-> ReservedSkillNames(p)],
                             agentNames))

\* convertClaudeToKiro: the bundle and the registry it leaves
convertClaudeToKiro(p) == ConvertWithAgents(p, AgentNamesOf(p))

(***************************************************************************)
(* Specification SpecNorm: normalizeName applied to an input, then to its  *)
(* own result                                                              *)
(***************************************************************************)
MaxNameParts == 3

\* pieces the input names are built from: one character of each class the
\* replace chain tells apart, runs long enough to reach the length limit,
\* and the digit-first name of the fallback
NameParts ==
    { <<"a">>, <<"B">>, <<"1">>, <<"-">>, <<"_">>, <<" ">>, <<"/">>,
      <<":">>, <<"!">>,
      Rep("a", KIRO_SKILL_NAME_MAX_LENGTH - 1),
      Rep("b", KIRO_SKILL_NAME_MAX_LENGTH \div 2),
      <<"1","2","3","a","b","c">> }

RECURSIVE Concats(_, _)
\* the concatenations of at most n pieces of P
Concats(P, n) ==
    IF n = 0 THEN {<<>>}
    ELSE LET prev == Concats(P, n - 1)
         IN prev \cup {p \o q : p \in prev, q \in P}

NameInputs == Concats(NameParts, MaxNameParts)

NoCall == [base |-> <<>>, before |-> {}, name |-> <<>>]

IdleNorm == nIn = <<>> /\ nOut = <<>> /\ nOut2 = <<>>

IdleUnique == used = {} /\ uCall = NoCall /\ returned = <<>>

IdleTransform == tBody = <<>> /\ tPeers = <<>> /\ tOut = <<>> /\ tOut2 = <<>>

IdleConvert == plugin = EmptyPlugin /\ usedSkillNames = {}

IdleWrite ==
    /\ outputRoot = <<>>
    /\ bundle = EmptyBundle
    /\ widx = 0
    /\ files = <<>>
    /\ mcpFile = NoFile
    /\ backups = <<>>
    /\ existingConfig = <<>>
    /\ warnings = <<>>
    /\ raised = NoError
    /\ ops = <<>>
    /\ mcpBefore = NoFile

InitNorm ==
    /\ pc = "norm_start"
    /\ nIn \in NameInputs
    /\ nOut = <<>>
    /\ nOut2 = <<>>
    /\ IdleUnique
    /\ IdleTransform
    /\ IdleConvert
    /\ IdleWrite

NormalizeOnce ==
    /\ pc = "norm_start"
    /\ nOut' = normalizeName(nIn)
    /\ pc' = "norm_once"
    /\ UNCHANGED <<nIn, nOut2, uniqueVars, transformVars, convertVars, writeVars>>

NormalizeTwice ==
    /\ pc = "norm_once"
    /\ nOut2' = normalizeName(nOut)
    /\ pc' = "norm_twice"
    /\ UNCHANGED <<nIn, nOut, uniqueVars, transformVars, convertVars, writeVars>>

NextNorm == NormalizeOnce \/ NormalizeTwice

SpecNorm == InitNorm /\ [][NextNorm]_vars

\* C7: normalizeName is idempotent: normalizing the result of normalizeName
\* gives that result back, for every input, also a truncated or "item" one.
C7_NormalizeIdempotent ==
    pc = "norm_twice" => nOut2 = nOut

\* an input over the length limit was truncated (not replaced by "item") and
\* its result normalized again
C7_Witness ==
    /\ pc = "norm_twice"
    /\ Len(CleanName(trim(nIn))) > KIRO_SKILL_NAME_MAX_LENGTH
    /\ nOut # Item
    /\ Len(nOut) < Len(nIn)

\* the name as cleaned and cut to length, before the fallback decides
CleanedOf(x) == TruncateName(CleanName(trim(x)))

FallbackExamples ==
    { <<>>, <<"-","-","-">>, <<"1","2","3","a","b","c">> }

\* C8: normalizeName(x) is at most 64 characters long, does not end in a
\* hyphen and starts with a lowercase letter; when the cleaned name is empty
\* or does not start with a lowercase letter (as for "", "---", "123abc")
\* the result is exactly "item".
C8_NormalizeWellFormed ==
    pc # "norm_start" =>
        /\ Len(nOut) >= 1
        /\ Len(nOut) <= KIRO_SKILL_NAME_MAX_LENGTH
        /\ nOut[Len(nOut)] # "-"
        /\ nOut[1] \in LowerLetters
        /\ (CleanedOf(nIn) = <<>> \/ CleanedOf(nIn)[1] \notin LowerLetters)
              => nOut = Item
        /\ nIn \in FallbackExamples => nOut = Item

\* the digit-first example "123abc" was normalized to "item"
C8_Witness ==
    /\ pc = "norm_once"
    /\ nIn = <<"1","2","3","a","b","c">>
    /\ nOut = Item

\* C13: when the cleaned name is longer than KIRO_SKILL_NAME_MAX_LENGTH (and
\* starts with a letter, so that the fallback to "item" is not at stake),
\* the result of normalizeName is a prefix of the cleaned name that the
\* cleaned name continues with a hyphen: the cut is at a hyphen boundary,
\* never inside a word.
C13_TruncatesAtHyphenBoundary ==
    pc # "norm_start" =>
        LET cleaned == CleanName(trim(nIn))
        IN (Len(cleaned) > KIRO_SKILL_NAME_MAX_LENGTH
            /\ cleaned[1] \in LowerLetters)
           => /\ Len(nOut) <= KIRO_SKILL_NAME_MAX_LENGTH
              /\ nOut = SubSeq(cleaned, 1, Len(nOut))
              /\ cleaned[Len(nOut) + 1] = "-"

(***************************************************************************)
(* Specification SpecUnique: a sequence of uniqueName calls on one         *)
(* registry                                                                *)
(***************************************************************************)
MaxCalls == 3

MaxPrefilled == 10

Plan == <<"p","l","a","n">>

Bases == { Plan, Suffixed(Plan, 2), Item }

\* registries the calls start from: any choice of a few names around "plan",
\* and one where plan-2 .. plan-MaxPrefilled are all taken
InitialRegistries ==
    (SUBSET { Plan, Suffixed(Plan, 2), Suffixed(Plan, 3),
              Suffixed(Suffixed(Plan, 2), 2), Item })
    \cup { {Plan} \cup {Suffixed(Plan, k) : k \in 2..MaxPrefilled} }

InitUnique ==
    /\ pc = "unique"
    /\ used \in InitialRegistries
    /\ uCall = NoCall
    /\ returned = <<>>
    /\ IdleNorm
    /\ IdleTransform
    /\ IdleConvert
    /\ IdleWrite

CallUniqueName ==
    /\ pc = "unique"
    /\ Len(returned) < MaxCalls
    /\ \E base \in Bases :
          LET r == uniqueName(base, used)
          IN /\ used' = r.used
             /\ returned' = Append(returned, r.name)
             /\ uCall' = [base |-> base, before |-> used, name |-> r.name]
    /\ UNCHANGED <<pc, normVars, transformVars, convertVars, writeVars>>

NextUnique == CallUniqueName

SpecUnique == InitUnique /\ [][NextUnique]_vars

\* C9: uniqueName(base, registry) returns base when base is not in the
\* registry, otherwise base-k for the smallest k >= 2 with base-k not in the
\* registry; the returned name was not in the registry before the call, the
\* registry after the call is the old one plus exactly that name, and the
\* names returned by a sequence of calls are pairwise distinct.
C9_UniqueNameContract ==
    uCall # NoCall =>
        /\ uCall.base \notin uCall.before => uCall.name = uCall.base
        /\ uCall.base \in uCall.before =>
              \E k \in 2..(Cardinality(uCall.before) + 2) :
                 /\ uCall.name = Suffixed(uCall.base, k)
                 /\ \A j \in 2..(k - 1) : Suffixed(uCall.base, j) \in uCall.before
        /\ uCall.name \notin uCall.before
        /\ used = uCall.before \cup {uCall.name}
        /\ \A i, j \in DOMAIN returned : i # j => returned[i] # returned[j]

\* "plan" and "plan-2" were taken and the call for "plan" returned "plan-3"
C9_Witness ==
    /\ uCall.base = Plan
    /\ {Plan, Suffixed(Plan, 2)} \subseteq uCall.before
    /\ uCall.name = Suffixed(Plan, 3)
    /\ Len(returned) >= 2

(***************************************************************************)
(* Specification SpecTransform: transformContentForKiro applied to a body, *)
(* then to its own result, with the same known agent names                 *)
(***************************************************************************)
MaxBodyParts == 3

Reviewer == <<"r","e","v","i","e","w","e","r">>

The == <<"t","h","e">>

\* pieces the bodies are built from: a mention sign, two agent names, a
\* hyphenated tail, white space, a Task call split at its closing
\* parenthesis, a slash command, a tool phrase and the two path forms
BodyParts ==
    { <<"@">>, Reviewer, The, <<"-","e","x","t","r","a">>, <<" ">>, <<"\n">>,
      <<"T","a","s","k"," ","f","o","o","(","a">>, <<")">>,
      <<"/","p","l","a","n">>, <<"B","a","s","h"," ","t","o","o","l">>,
      <<".","c","l","a","u","d","e","/">>, <<"~","/",".","c","l","a","u","d","e","/">> }

Bodies == Concats(BodyParts, MaxBodyParts)

\* the lists of known agent names: normalized names, as convertClaudeToKiro
\* passes them
PeerLists == { <<>>, <<Reviewer>>, <<The>>, <<Reviewer, The>> }

InitTransform ==
    /\ pc = "transform_start"
    /\ tBody \in Bodies
    /\ tPeers \in PeerLists
    /\ tOut = <<>>
    /\ tOut2 = <<>>
    /\ IdleNorm
    /\ IdleUnique
    /\ IdleConvert
    /\ IdleWrite

TransformOnce ==
    /\ pc = "transform_start"
    /\ tOut' = transformContentForKiro(tBody, tPeers)
    /\ pc' = "transform_once"
    /\ UNCHANGED <<normVars, uniqueVars, tBody, tPeers, tOut2, convertVars, writeVars>>

TransformTwice ==
    /\ pc = "transform_once"
    /\ tOut2' = transformContentForKiro(tOut, tPeers)
    /\ pc' = "transform_twice"
    /\ UNCHANGED <<normVars, uniqueVars, tBody, tPeers, tOut, convertVars, writeVars>>

NextTransform == TransformOnce \/ TransformTwice

SpecTransform == InitTransform /\ [][NextTransform]_vars

\* C5: transformContentForKiro is idempotent: for every body and every list
\* of known agent names, transforming the transformed body again with the
\* same names changes nothing.
C5_TransformIdempotent ==
    pc = "transform_twice" => tOut2 = tOut

\* the characters of a mentioned name: those of a normalized identifier
MentionChars == LowerLetters \cup Digits \cup {"_", "-"}

\* an "@name" mention starts at position i of s
IsMention(s, i) == At(s, i) = "@" /\ At(s, i + 1) \in MentionChars

\* the whole identifier after the "@" at position i
MentionName(s, i) == SubSeq(s, i + 1, SkipWhile(s, i + 1, MentionChars) - 1)

\* lit occurs somewhere in s
Contains(s, lit) == \E i \in 1..Len(s) : HasLit(s, i, lit)

KnownPeers == {tPeers[k] : k \in DOMAIN tPeers}

\* C6: an "@name" mention is rewritten only when name is one of the known
\* agent names; every mention whose whole identifier after "@" is not a
\* known agent name appears verbatim in the output.
C6_UnknownMentionsVerbatim ==
    pc = "transform_once" =>
        \A i \in DOMAIN tBody :
            (IsMention(tBody, i) /\ MentionName(tBody, i) \notin KnownPeers)
                => Contains(tOut, <<"@">> \o MentionName(tBody, i))

(***************************************************************************)
(* writeKiroBundle, one step per record and per mcp.json operation         *)
(***************************************************************************)
\* the sections of writeKiroBundle in source order, and whether the bundle
\* gives the section anything to do
Sections == <<"agents", "skills", "dirs", "steering", "mcp_backup">>

HasWork(b, section) ==
    CASE section = "agents" -> Len(b.agents) > 0
      [] section = "skills" -> Len(b.generatedSkills) > 0
      [] section = "dirs" -> Len(b.skillDirs) > 0
      [] section = "steering" -> Len(b.steeringFiles) > 0
      [] section = "mcp_backup" -> DOMAIN b.mcpServers # {}

\* the first section from the k-th on that has work, "done" when none has
SectionFrom(b, k) ==
    LET todo == {i \in k..Len(Sections) : HasWork(b, Sections[i])}
    IN IF todo = {} THEN "done"
       ELSE Sections[CHOOSE i \in todo : \A j \in todo : i <= j]

SectionIndex(section) == CHOOSE i \in DOMAIN Sections : Sections[i] = section

\* the position after record widx of a section with n records
Advance(section, n) ==
    IF widx < n
    THEN pc' = section /\ widx' = widx + 1
    ELSE pc' = SectionFrom(bundle, SectionIndex(section) + 1) /\ widx' = 1

Paths == resolveKiroPaths(outputRoot)

\* the files an agent record is written to
AgentConfigPath(name) == Append(Paths.agentsDir, name \o ExtJson)

AgentPromptPath(name) ==
    Append(Append(Paths.agentsDir, SegPrompts), name \o ExtMd)

\* the file a generated skill is written to
SkillDocPath(name) == Append(PathJoin(Paths.skillsDir, name), SegSkillMd)

\* the directory a pass-through skill is copied to
SkillDirPath(name) == PathJoin(Paths.skillsDir, name)

\* the file a steering record is written to
SteeringPath(name) == Append(Paths.steeringDir, name \o ExtMd)

\* settings/mcp.json
McpPath == Append(Paths.settingsDir, SegMcpJson)

\* the throw of validatePathSafe leaves writeKiroBundle
Raise(label, name) ==
    /\ raised' = [label |-> label, name |-> name]
    /\ pc' = "raised"
    /\ UNCHANGED <<outputRoot, bundle, widx, files, mcpFile, backups,
                   existingConfig, warnings, ops, mcpBefore>>

\* one entry of the history of file operations: what was done, where, and
\* for which record (section and index) it was done
Op(op, path, section) ==
    [op |-> op, path |-> path, section |-> section, index |-> widx]

StartWrite ==
    /\ pc = "write_start"
    /\ pc' = SectionFrom(bundle, 1)
    /\ widx' = 1
    /\ ops' = Append(ops, Op("ensureDir", Paths.kiroDir, "start"))
    /\ UNCHANGED <<outputRoot, bundle, files, mcpFile, backups,
                   existingConfig, warnings, raised, mcpBefore>>
    /\ UNCHANGED <<normVars, uniqueVars, transformVars, convertVars>>

WriteAgent ==
    /\ pc = "agents"
    /\ LET agent == bundle.agents[widx]
       IN IF ~ validatePathSafe(agent.name)
          THEN Raise("agent", agent.name)
          ELSE /\ files' = WriteFile(
                             WriteFile(files, AgentConfigPath(agent.name),
                                       agent.config),
                             AgentPromptPath(agent.name), agent.promptContent)
               /\ ops' = ops \o
                     << Op("writeJson", AgentConfigPath(agent.name), "agents"),
                        Op("writeText", AgentPromptPath(agent.name), "agents") >>
               /\ Advance("agents", Len(bundle.agents))
               /\ UNCHANGED <<outputRoot, bundle, mcpFile, backups,
                              existingConfig, warnings, raised, mcpBefore>>
    /\ UNCHANGED <<normVars, uniqueVars, transformVars, convertVars>>

WriteGeneratedSkill ==
    /\ pc = "skills"
    /\ LET skill == bundle.generatedSkills[widx]
       IN IF ~ validatePathSafe(skill.name)
          THEN Raise("skill", skill.name)
          ELSE /\ files' = WriteFile(files, SkillDocPath(skill.name),
                                     skill.content)
               /\ ops' = Append(ops,
                     Op("writeText", SkillDocPath(skill.name), "skills"))
               /\ Advance("skills", Len(bundle.generatedSkills))
               /\ UNCHANGED <<outputRoot, bundle, mcpFile, backups,
                              existingConfig, warnings, raised, mcpBefore>>
    /\ UNCHANGED <<normVars, uniqueVars, transformVars, convertVars>>

CopySkillDir ==
    /\ pc = "dirs"
    /\ LET skill == bundle.skillDirs[widx]
           destDir == SkillDirPath(skill.name)
       IN IF ~ validatePathSafe(skill.name)
          THEN Raise("skill directory", skill.name)
          ELSE /\ IF ~ StartsWith(PathString(destDir),
                                  PathString(Paths.skillsDir))
                  THEN /\ warnings' = Append(warnings,
                                        [warning |-> "escapes", name |-> skill.name])
                       /\ UNCHANGED <<files, ops>>
                  ELSE /\ files' = WriteFile(files, destDir, skill.sourceDir)
                       /\ ops' = Append(ops, Op("copyDir", destDir, "dirs"))
                       /\ UNCHANGED warnings
               /\ Advance("dirs", Len(bundle.skillDirs))
               /\ UNCHANGED <<outputRoot, bundle, mcpFile, backups,
                              existingConfig, raised, mcpBefore>>
    /\ UNCHANGED <<normVars, uniqueVars, transformVars, convertVars>>

WriteSteeringFile ==
    /\ pc = "steering"
    /\ LET file == bundle.steeringFiles[widx]
       IN IF ~ validatePathSafe(file.name)
          THEN Raise("steering file", file.name)
          ELSE /\ files' = WriteFile(files, SteeringPath(file.name),
                                     file.content)
               /\ ops' = Append(ops,
                     Op("writeText", SteeringPath(file.name), "steering"))
               /\ Advance("steering", Len(bundle.steeringFiles))
               /\ UNCHANGED <<outputRoot, bundle, mcpFile, backups,
                              existingConfig, warnings, raised, mcpBefore>>
    /\ UNCHANGED <<normVars, uniqueVars, transformVars, convertVars>>

\* backupFile: a copy of the file as it is joins the backups when there is
\* a file, and the file itself stays in place
backupFile(file, taken) ==
    IF file.kind # "absent" THEN Append(taken, file) ELSE taken

\* backupFile(mcpPath): a file that exists is copied aside
BackupMcp ==
    /\ pc = "mcp_backup"
    /\ backups' = backupFile(mcpFile, backups)
    /\ ops' = Append(ops, Op("backupFile", McpPath, "mcp"))
    /\ pc' = "mcp_read"
    /\ UNCHANGED <<outputRoot, bundle, widx, files, mcpFile, existingConfig,
                   warnings, raised, mcpBefore>>
    /\ UNCHANGED <<normVars, uniqueVars, transformVars, convertVars>>

\* pathExists and readJson in their try block
ReadMcp ==
    /\ pc = "mcp_read"
    /\ existingConfig' = IF mcpFile.kind = "json" THEN mcpFile.config ELSE <<>>
    /\ warnings' = IF mcpFile.kind = "unparseable"
                   THEN Append(warnings,
                               [warning |-> "unparseable", name |-> SegMcpJson])
                   ELSE warnings
    /\ ops' = ops \o <<Op("pathExists", McpPath, "mcp")>>
                   \o (IF mcpFile.kind # "absent"
                       THEN <<Op("readJson", McpPath, "mcp")>> ELSE <<>>)
    /\ pc' = "mcp_write"
    /\ UNCHANGED <<outputRoot, bundle, widx, files, mcpFile, backups, raised,
                   mcpBefore>>
    /\ UNCHANGED <<normVars, uniqueVars, transformVars, convertVars>>

\* mutant: the merged file is written without waiting for the backup and
\* the read
WriteMcp_beforeBackup ==
    /\ pc \in {"mcp_backup", "mcp_write"}
    /\ mcpFile' = JsonFile(MergedConfig(existingConfig, bundle.mcpServers))
    /\ ops' = Append(ops, Op("writeJson", McpPath, "mcp"))
    /\ pc' = "done"
    /\ UNCHANGED <<outputRoot, bundle, widx, files, backups, existingConfig,
                   warnings, raised, mcpBefore>>
    /\ UNCHANGED <<normVars, uniqueVars, transformVars, convertVars>>

\* the merge and writeJson(mcpPath, merged)
WriteMcp ==
    /\ pc = "mcp_write"
    /\ mcpFile' = JsonFile(MergedConfig(existingConfig, bundle.mcpServers))
    /\ ops' = Append(ops, Op("writeJson", McpPath, "mcp"))
    /\ pc' = "done"
    /\ UNCHANGED <<outputRoot, bundle, widx, files, backups, existingConfig,
                   warnings, raised, mcpBefore>>
    /\ UNCHANGED <<normVars, uniqueVars, transformVars, convertVars>>

WriteStep ==
    \/ StartWrite
    \/ WriteAgent
    \/ WriteGeneratedSkill
    \/ CopySkillDir
    \/ WriteSteeringFile
    \/ BackupMcp
    \/ ReadMcp
    \/ WriteMcp

(***************************************************************************)
(* Specification SpecWrite: writeKiroBundle on any bundle                  *)
(***************************************************************************)
MaxRecords == 2

\* record names: two safe ones and one with each unsafe token
WriteNames ==
    { <<"a">>, <<"b">>, <<".", ".">>, <<"a", "/", "b">>, <<"a", "\\", "b">> }

RECURSIVE SeqsUpTo(_, _)
\* the sequences over S of length at most n
SeqsUpTo(S, n) ==
    IF n <= 0 THEN {<<>>}
    ELSE LET prev == SeqsUpTo(S, n - 1)
         IN prev \cup {Append(q, x) : q \in prev, x \in S}

\* the records of one section, named by a sequence of names; the opaque
\* parts say which record of which section they belong to
AgentRecords(names) ==
    [i \in DOMAIN names |->
        [name |-> names[i], config |-> <<"agent config", i>>,
         promptContent |-> <<"agent prompt", i>>]]

DocRecords(names, what) ==
    [i \in DOMAIN names |-> [name |-> names[i], content |-> <<what, i>>]]

DirRecords(names) ==
    [i \in DOMAIN names |->
        [name |-> names[i], sourceDir |-> <<"source dir", i>>]]

NewServer == [command |-> "new-cmd"]

OtherNewServer == [command |-> "other-cmd"]

OldServer == [command |-> "old-cmd"]

BundleServerMaps ==
    { <<>>, [n \in {"s1"} |-> NewServer],
      [n \in {"s1", "s2"} |-> IF n = "s1" THEN NewServer ELSE OtherNewServer] }

\* the bundles with at most MaxRecords records over all sections
WriteBundles ==
    UNION { UNION { UNION { UNION {
        { [agents |-> AgentRecords(a),
           generatedSkills |-> DocRecords(g, "skill document"),
           skillDirs |-> DirRecords(d),
           steeringFiles |-> DocRecords(f, "steering document"),
           mcpServers |-> m] : m \in BundleServerMaps }
        : f \in SeqsUpTo(WriteNames, MaxRecords - Len(a) - Len(g) - Len(d)) }
        : d \in SeqsUpTo(WriteNames, MaxRecords - Len(a) - Len(g)) }
        : g \in SeqsUpTo(WriteNames, MaxRecords - Len(a)) }
        : a \in SeqsUpTo(WriteNames, MaxRecords) }

\* top-level keys of an existing mcp.json other than mcpServers
OtherKeys ==
    { <<>>,
      [k \in {"theme", "version"} |->
          IF k = "theme" THEN JsonString("dark") ELSE JsonNumber(1)] }

\* the mcpServers key of an existing mcp.json: missing, no object, an
\* object with a server the bundle does not name, and one that also has a
\* server of the bundle's name
ExistingServerKeys ==
    { <<>>,
      [k \in {"mcpServers"} |-> JsonString("none")],
      [k \in {"mcpServers"} |-> JsonObject([n \in {"old"} |-> OldServer])],
      [k \in {"mcpServers"} |-> JsonObject([n \in {"old", "s1"} |-> OldServer])] }

ExistingMcpFiles ==
    { NoFile, BadJson }
    \cup { JsonFile(o @@ m) : o \in OtherKeys, m \in ExistingServerKeys }

OutputRoots == { << <<"o","u","t">> >>, << <<"o","u","t">>, SegKiro >> }

InitWrite ==
    /\ pc = "write_start"
    /\ outputRoot \in OutputRoots
    /\ bundle \in WriteBundles
    /\ widx = 0
    /\ files = <<>>
    /\ mcpFile \in ExistingMcpFiles
    /\ backups = <<>>
    /\ existingConfig = <<>>
    /\ warnings = <<>>
    /\ raised = NoError
    /\ ops = <<>>
    /\ mcpBefore = mcpFile
    /\ IdleNorm
    /\ IdleUnique
    /\ IdleTransform
    /\ IdleConvert

NextWrite == WriteStep

SpecWrite == InitWrite /\ [][NextWrite]_vars

\* the records of a bundle in the order writeKiroBundle reaches them
WriteOrder(b) ==
    [i \in DOMAIN b.agents |->
        [section |-> "agents", index |-> i, name |-> b.agents[i].name]]
    \o [i \in DOMAIN b.generatedSkills |->
        [section |-> "skills", index |-> i, name |-> b.generatedSkills[i].name]]
    \o [i \in DOMAIN b.skillDirs |->
        [section |-> "dirs", index |-> i, name |-> b.skillDirs[i].name]]
    \o [i \in DOMAIN b.steeringFiles |->
        [section |-> "steering", index |-> i, name |-> b.steeringFiles[i].name]]

\* the identifier contains "..", "/" or "\"
UnsafeName(name) ==
    \E i \in DOMAIN name :
        \/ name[i] = "/"
        \/ name[i] = "\\"
        \/ (name[i] = "." /\ i < Len(name) /\ name[i + 1] = ".")

\* the position in the write order of the first record with an unsafe
\* identifier, 0 when every identifier is safe
FirstUnsafe(order) ==
    LET bad == {i \in DOMAIN order : UnsafeName(order[i].name)}
    IN IF bad = {} THEN 0 ELSE CHOOSE i \in bad : \A j \in bad : i <= j

\* the position in the write order of the record a file operation was done
\* for; the operations on mcp.json come after every record
OrderIndex(order, o) ==
    IF o.section = "start" THEN 0
    ELSE IF o.section = "mcp" THEN Len(order) + 1
    ELSE CHOOSE i \in DOMAIN order :
            order[i].section = o.section /\ order[i].index = o.index

ErrorLabel(section) ==
    CASE section = "agents" -> "agent"
      [] section = "skills" -> "skill"
      [] section = "dirs" -> "skill directory"
      [] section = "steering" -> "steering file"

\* C3: writeKiroBundle raises at the first agent, generated-skill,
\* skill-directory or steering record whose identifier contains "..", "/"
\* or "\": no file operation is ever done for that record or for anything
\* later in the write order (mcp.json included), the run never completes,
\* and when it has raised, the error names that record and every earlier
\* record has been written and stays on disk.
C3_RaiseStopsWrite ==
    LET order == WriteOrder(bundle)
        u == FirstUnsafe(order)
    IN /\ u # 0 =>
            /\ pc # "done"
            /\ \A i \in DOMAIN ops : OrderIndex(order, ops[i]) < u
            /\ mcpFile = mcpBefore
       /\ pc = "raised" =>
            /\ u # 0
            /\ raised = [label |-> ErrorLabel(order[u].section),
                         name |-> order[u].name]
            /\ \A j \in 1..(u - 1) :
                  \E i \in DOMAIN ops :
                     /\ OrderIndex(order, ops[i]) = j
                     /\ ops[i].path \in DOMAIN files

\* a record was written, the next one raised, and the bundle has servers
\* for an mcp.json that will not be written
C3_Witness ==
    /\ pc = "raised"
    /\ FirstUnsafe(WriteOrder(bundle)) = 2
    /\ DOMAIN files # {}
    /\ DOMAIN bundle.mcpServers # {}
    /\ mcpFile = mcpBefore

\* the server map of a config, empty when mcpServers is no object
ServersOf(config) ==
    IF "mcpServers" \in DOMAIN config /\ config["mcpServers"].type = "object"
    THEN config["mcpServers"].val
    ELSE <<>>

\* C4: after a write with a non-empty server map over a parseable mcp.json,
\* the file keeps every top-level key other than mcpServers with its value,
\* keeps every existing server the bundle does not name, holds every server
\* of the bundle, and holds the bundle's entry where the names collide; over
\* an unparseable file the result holds exactly the bundle's servers.
C4_McpMergePreserves ==
    (pc = "done" /\ DOMAIN bundle.mcpServers # {}) =>
        /\ mcpFile.kind = "json"
        /\ "mcpServers" \in DOMAIN mcpFile.config
        /\ mcpFile.config["mcpServers"].type = "object"
        /\ LET new == mcpFile.config
               newServers == new["mcpServers"].val
           IN /\ \A n \in DOMAIN bundle.mcpServers :
                    n \in DOMAIN newServers /\ newServers[n] = bundle.mcpServers[n]
              /\ mcpBefore.kind = "json" =>
                    /\ \A k \in DOMAIN mcpBefore.config \ {"mcpServers"} :
                          k \in DOMAIN new /\ new[k] = mcpBefore.config[k]
                    /\ \A n \in DOMAIN ServersOf(mcpBefore.config)
                                  \ DOMAIN bundle.mcpServers :
                          /\ n \in DOMAIN newServers
                          /\ newServers[n] = ServersOf(mcpBefore.config)[n]
              /\ mcpBefore.kind = "unparseable" =>
                    /\ DOMAIN new = {"mcpServers"}
                    /\ newServers = bundle.mcpServers

\* a file with two other keys, a server of its own and a server of the
\* bundle's name was merged with the bundle's servers
C4_Witness ==
    /\ pc = "done"
    /\ mcpBefore.kind = "json"
    /\ {"theme", "version"} \subseteq DOMAIN mcpBefore.config
    /\ {"old", "s1"} \subseteq DOMAIN ServersOf(mcpBefore.config)
    /\ "s1" \in DOMAIN bundle.mcpServers
    /\ ServersOf(mcpFile.config)["s1"] = NewServer
    /\ ServersOf(mcpFile.config)["old"] = OldServer

\* the skip branch of the skill-directory loop was taken
C10_SkipReached ==
    \E i \in DOMAIN warnings : warnings[i].warning = "escapes"

\* the case of C10 (a skill directory whose resolved destination lies outside
\* the skills directory) never arises: no run takes the skip branch of the
\* skill-directory loop
C10_SkipNeverReached == ~ C10_SkipReached

\* the operations done on mcp.json so far, oldest first
McpOps ==
    LET sel == SelectSeq(ops, LAMBDA o : o.section = "mcp")
    IN [i \in DOMAIN sel |-> sel[i].op]

\* the operations on mcp.json of a complete run, in the order of the source:
\* readJson is called only when pathExists found the file
McpOpsExpected ==
    <<"backupFile", "pathExists">>
    \o (IF mcpBefore.kind # "absent" THEN <<"readJson">> ELSE <<>>)
    \o <<"writeJson">>

IsPrefix(a, b) == Len(a) <= Len(b) /\ SubSeq(b, 1, Len(a)) = a

\* C11: in a run whose bundle has a server, the steps on mcp.json happen in
\* the order backup, read of the existing file, write of the merged file:
\* the file is not overwritten before a backup holding its content exists,
\* the content merged is the content read after the backup, and a run that
\* completes has done all the steps.
C11_McpBackupReadWrite ==
    /\ IsPrefix(McpOps, McpOpsExpected)
    /\ McpOps # <<>> => DOMAIN bundle.mcpServers # {}
    /\ mcpFile # mcpBefore => McpOps = McpOpsExpected
    /\ (\E i \in DOMAIN McpOps : McpOps[i] \in {"pathExists", "writeJson"}) =>
          /\ backups = backupFile(mcpBefore, <<>>)
          /\ mcpBefore.kind = "json" => existingConfig = mcpBefore.config
    /\ (pc = "done" /\ DOMAIN bundle.mcpServers # {}) =>
          /\ McpOps = McpOpsExpected
          /\ mcpFile = JsonFile(MergedConfig(existingConfig, bundle.mcpServers))

\* an existing mcp.json was backed up, read and then overwritten by the
\* merged file
C11_Witness ==
    /\ pc = "done"
    /\ mcpBefore.kind = "json"
    /\ backups = <<mcpBefore>>
    /\ McpOps = <<"backupFile", "pathExists", "readJson", "writeJson">>
    /\ mcpFile # mcpBefore

(***************************************************************************)
(* Specification SpecConvert: convertClaudeToKiro on a plugin, and         *)
(* writeKiroBundle on the bundle it returns                                *)
(***************************************************************************)
MaxEntities == 2

LongName == Rep("a", KIRO_SKILL_NAME_MAX_LENGTH)

\* pass-through skills: one named like a command, one whose name is a
\* maximum-length name with a numeric suffix, one with a separator
SkillSources ==
    { [name |-> Plan, sourceDir |-> <<"s","k","i","l","l","s","/","p","l","a","n">>],
      [name |-> Suffixed(LongName, 2), sourceDir |-> <<"s","k","i","l","l","s","/","l","o","n","g">>],
      [name |-> <<"a","/","b">>, sourceDir |-> <<"s","k","i","l","l","s","/","n","e","s","t","e","d">>] }

\* agents: two names that normalize to the same identifier, and a third
AgentSources ==
    { [name |-> <<"C","o","d","e"," ","R","e","v","i","e","w","e","r">>, body |-> <<"R","e","v","i","e","w"," ","w","i","t","h"," ","@","r","e","v","i","e","w","e","r">>],
      [name |-> <<"c","o","d","e","-","r","e","v","i","e","w","e","r">>, body |-> <<>>],
      [name |-> Reviewer, body |-> <<"T","a","s","k"," ","c","o","d","e","-","r","e","v","i","e","w","e","r","(","d","i","f","f",")">>] }

\* commands: two names that normalize to "plan", and a maximum-length name
CommandSources ==
    { [name |-> Plan, body |-> <<"R","u","n"," ","/","p","l","a","n"," ","w","i","t","h"," ","@","r","e","v","i","e","w","e","r">>],
      [name |-> <<"P","l","a","n">>, body |-> <<>>],
      [name |-> LongName, body |-> <<"R","e","a","d"," ","t","o","o","l">>] }

StdioServer == [command |-> "npx", args |-> <<"server">>, env |-> <<>>]

HttpServer == [command |-> "", args |-> <<>>, env |-> <<>>]

\* the rest of a plugin: servers, CLAUDE.md and hooks
PluginExtras ==
    { [mcpServers |-> <<>>, claudeMd |-> NoClaudeMd, hooks |-> FALSE],
      [mcpServers |-> [n \in {"s1"} |-> StdioServer],
       claudeMd |-> <<"U","s","e"," ",".","c","l","a","u","d","e","/"," ","a","n","d"," ","@","r","e","v","i","e","w","e","r">>, hooks |-> FALSE],
      [mcpServers |-> [n \in {"s1", "web"} |->
                          IF n = "s1" THEN StdioServer ELSE HttpServer],
       claudeMd |-> NoClaudeMd, hooks |-> TRUE] }

\* lists of up to n different entries of S
ListsUpTo(S, n) ==
    { q \in SeqsUpTo(S, n) : \A i, j \in 1..Len(q) : i # j => q[i] # q[j] }

Plugins ==
    { [skills |-> sk, agents |-> ag, commands |-> co,
       mcpServers |-> x.mcpServers, claudeMd |-> x.claudeMd, hooks |-> x.hooks] :
        sk \in ListsUpTo(SkillSources, MaxEntities),
        ag \in ListsUpTo(AgentSources, MaxEntities),
        co \in ListsUpTo(CommandSources, MaxEntities),
        x \in PluginExtras }

InitConvert ==
    /\ pc = "convert"
    /\ plugin \in Plugins
    /\ usedSkillNames = {}
    /\ outputRoot = << <<"o","u","t">> >>
    /\ bundle = EmptyBundle
    /\ widx = 0
    /\ files = <<>>
    /\ mcpFile \in { NoFile,
                     JsonFile([k \in {"mcpServers"} |->
                                 JsonObject([n \in {"old", "s1"} |-> OldServer])]) }
    /\ backups = <<>>
    /\ existingConfig = <<>>
    /\ warnings = <<>>
    /\ raised = NoError
    /\ ops = <<>>
    /\ mcpBefore = mcpFile
    /\ IdleNorm
    /\ IdleUnique
    /\ IdleTransform

\* the converter runs to its return; its warnings go to the console
Convert ==
    /\ pc = "convert"
    /\ \E r \in {convertClaudeToKiro(plugin)} :
          /\ bundle' = r.bundle
          /\ usedSkillNames' = r.used
    /\ warnings' = McpWarnings(plugin.mcpServers)
                   \o (IF plugin.hooks
                       THEN <<[warning |-> "hooks skipped", name |-> <<>>]>>
                       ELSE <<>>)
    /\ pc' = "write_start"
    /\ UNCHANGED <<plugin, outputRoot, widx, files, mcpFile, backups,
                   existingConfig, raised, ops, mcpBefore>>
    /\ UNCHANGED <<normVars, uniqueVars, transformVars>>

NextConvert == Convert \/ WriteStep

SpecConvert == InitConvert /\ [][NextConvert]_vars

\* the operations of the history that wrote for records of a section
OpsOf(section) == {i \in DOMAIN ops : ops[i].section = section}

\* C1: in the bundle convertClaudeToKiro returns, the identifiers of the
\* generated skills are pairwise distinct and none of them equals the name
\* of a pass-through skill directory record, so writeKiroBundle never
\* writes a generated SKILL.md into a directory that a pass-through skill
\* is copied into
C1_GeneratedSkillsApartFromDirs ==
    pc # "convert" =>
      /\ \A i, j \in DOMAIN bundle.generatedSkills :
            i # j => bundle.generatedSkills[i].name # bundle.generatedSkills[j].name
      /\ \A i \in DOMAIN bundle.generatedSkills, j \in DOMAIN bundle.skillDirs :
            bundle.generatedSkills[i].name # bundle.skillDirs[j].name
      /\ \A i \in OpsOf("skills"), j \in OpsOf("dirs") :
            ops[i].path # Append(ops[j].path, SegSkillMd)

\* C2: for agents with pairwise distinct source names, the agent records of
\* the returned bundle have pairwise distinct identifiers, so no agent's
\* config or prompt file is written twice when the bundle is written
C2_AgentIdentifiersDistinct ==
    (/\ pc # "convert"
     /\ \A i, j \in DOMAIN plugin.agents :
           i # j => plugin.agents[i].name # plugin.agents[j].name)
    => /\ \A i, j \in DOMAIN bundle.agents :
             i # j => bundle.agents[i].name # bundle.agents[j].name
       /\ \A i, j \in OpsOf("agents") :
             i # j => ops[i].path # ops[j].path

\* C12: every identifier convertClaudeToKiro emits for a generated skill,
\* also one that uniqueName suffixed, starts with a lowercase letter and is
\* at most KIRO_SKILL_NAME_MAX_LENGTH characters long
C12_GeneratedSkillIdsWellFormed ==
    pc # "convert" =>
      \A i \in DOMAIN bundle.generatedSkills :
         LET name == bundle.generatedSkills[i].name
         IN /\ Len(name) >= 1
            /\ name[1] \in LowerLetters
            /\ Len(name) <= KIRO_SKILL_NAME_MAX_LENGTH

====
